---- MODULE Spec2Model ----
(***************************************************************************)
(* Model of the exam widget of SubjectSaar: the TestApp class and the      *)
(* loader loadTestData.                                                    *)
(*                                                                         *)
(* Encoding.                                                               *)
(*  - JavaScript arrays are functions over 0..N-1 (the source's indices).  *)
(*  - null is Null, undefined (an absent JSON key) is Undefined.           *)
(*  - Date.now() is the variable now, in milliseconds; timeSpent is kept   *)
(*    in milliseconds (the source stores (now - lastQTime) / 1000, a       *)
(*    fractional number of seconds; the model keeps the exact value).      *)
(*  - marks (marksPerQuestion, negativeMarking, score) are counted in      *)
(*    quarters of a mark, so 0.25 is 1, 0.5 is 2, 1 is 4 and 10.5 is 42.   *)
(*  - the one-second interval and Date.now() are not tied to each other:   *)
(*    a browser may delay or throttle the interval, so any number of ticks *)
(*    may separate two readings of the clock.                              *)
(*  - a handler may run whenever the session runs, also one whose button   *)
(*    the page hides after submission: its own guard decides what it does. *)
(*  - of the DOM the text of the result fields (results), the classes of   *)
(*    the grid cells (grid) and of the rendered options (opts) are kept;   *)
(*    the mobile and the desktop grid get the same classes and are one.    *)
(*    darkMode and the body class, the panel's and the modal's classes are *)
(*    left out.                                                            *)
(***************************************************************************)
EXTENDS Integers, Sequences, FiniteSets, TLC

\* ------------------------------------------------------------------ bounds
\* Largest number of questions of a session payload.
MaxQ == 2
\* How often the wall clock advances during a session, and by how much (ms).
MaxClockSteps == 2
ClockStep == 20000
\* Largest number of questions of a scoring input.
MaxLoadQ == 40
MaxScoreQ == 10

\* --------------------------------------------------------------- encoding
Null == 0 - 1
Undefined == 0 - 2

\* whole marks and quarters as a count of quarter marks
Marks(whole, quarters) == (4 * whole) + quarters

VARIABLES
    phase,      \* "fetching", "error", "welcome", "starting", "running", "thrown";
                \* "scoring" and "scored" when calcResults is applied on its own
    payload,    \* the response of fetch(JSON_URL)
    now,        \* Date.now()
    config,     \* this.config
    qs,         \* this.qs
    curQ,       \* this.curQ
    ans,        \* this.ans
    reviewed,   \* this.reviewed
    startT,     \* this.startT
    timeLeft,   \* this.timeLeft
    timeSpent,  \* this.timeSpent
    lastQTime,  \* this.lastQTime
    sub,        \* this.sub
    eng,        \* this.eng
    timerOn,    \* the interval of this.timer is scheduled
    results,    \* what showResults last wrote to the result fields
    resCalls,   \* number of calls of calcResults so far
    grid,       \* the class each cell of the question grid carries beside q-num
    opts,       \* the classes each rendered option carries beside opt
    fetches     \* number of calls of fetch so far

vars == <<phase, payload, now, config, qs, curQ, ans, reviewed, startT, timeLeft,
          timeSpent, lastQTime, sub, eng, timerOn, results, resCalls,
                   grid, opts, fetches>>

\* -------------------------------------------------------------- questions
Question(n, c) == [nopts |-> n, correct_option_id |-> c]

NumQ == Cardinality(DOMAIN qs)
QIdx == DOMAIN qs

Max(a, b) == IF a >= b THEN a ELSE b

\* Math.round(x / d) for x >= 0, d > 0
RoundDiv(x, d) == ((2 * x) + d) \div (2 * d)

NoResults == [score |-> Null, correct |-> Null, incorrect |-> Null,
              unattempted |-> Null, timeTaken |-> Null]

NoConfig == [durationMinutes |-> 0, totalMarks |-> 0, marksPerQuestion |-> 0,
             negativeMarking |-> 0]

\* getDefaultConfig without the fallback for an empty array
getDefaultConfig_NoFallback(questions) ==
    LET totalQ == Cardinality(DOMAIN questions) IN
    [durationMinutes  |-> totalQ,
     totalMarks       |-> totalQ,
     marksPerQuestion |-> Marks(1, 0),
     negativeMarking  |-> Marks(0, 1)]

\* getDefaultConfig(qs): qs is always an array here (the loader checked it)
getDefaultConfig(questions) ==
    LET totalQ == Cardinality(DOMAIN questions) IN
    [durationMinutes  |-> IF totalQ # 0 THEN totalQ ELSE 34,
     totalMarks       |-> IF totalQ # 0 THEN totalQ ELSE 34,
     marksPerQuestion |-> Marks(1, 0),
     negativeMarking  |-> Marks(0, 1)]

\* ------------------------------------------------------------ the session
\* The mutable fields of the TestApp object with the DOM state kept beside it.
App == [curQ |-> curQ, ans |-> ans, reviewed |-> reviewed, timeLeft |-> timeLeft,
        timeSpent |-> timeSpent, lastQTime |-> lastQTime, sub |-> sub, eng |-> eng,
        timerOn |-> timerOn, results |-> results, resCalls |-> resCalls,
        grid |-> grid, opts |-> opts]

\* The handler's final object state (a, computed once as v) becomes the next state.
Becomes(a) ==
    \E v \in {a} :
        /\ curQ' = v.curQ
        /\ ans' = v.ans
        /\ reviewed' = v.reviewed
        /\ timeLeft' = v.timeLeft
        /\ timeSpent' = v.timeSpent
        /\ lastQTime' = v.lastQTime
        /\ sub' = v.sub
        /\ eng' = v.eng
        /\ timerOn' = v.timerOn
        /\ results' = v.results
        /\ resCalls' = v.resCalls
        /\ grid' = v.grid
        /\ opts' = v.opts

\* ------------------------------------------------------------ rendering
\* createGrid(): one cell for each question, with the class q-num alone
createGrid(a) == [a EXCEPT !.grid = [i \in QIdx |-> "none"]]

\* updateGrid with an answered cell shown as answered even if it is flagged
updateGrid_AnsBeforeReview(a) ==
    LET updateNum(v, i) ==
            IF i = v.curQ THEN "cur"
            ELSE IF v.sub
            THEN IF v.ans[i] # Null /\ qs[i].correct_option_id # Undefined
                 THEN IF v.ans[i] = qs[i].correct_option_id THEN "ans" ELSE "wrong"
                 ELSE IF v.ans[i] = Null THEN "unattempted" ELSE "none"
            ELSE IF v.ans[i] # Null THEN "ans"
                 ELSE IF v.reviewed[i] THEN "review" ELSE "none"
    IN CHOOSE painted \in
           {[v EXCEPT !.grid = [i \in DOMAIN v.grid |-> updateNum(v, i)]] : v \in {a}} :
           TRUE

\* updateGrid(): every cell the grid holds gets at most one class beside q-num
\* (v is the object a, evaluated once)
updateGrid(a) ==
    LET updateNum(v, i) ==
            IF i = v.curQ THEN "cur"
            ELSE IF v.sub
            THEN IF v.ans[i] # Null /\ qs[i].correct_option_id # Undefined
                 THEN IF v.ans[i] = qs[i].correct_option_id THEN "ans" ELSE "wrong"
                 ELSE IF v.ans[i] = Null THEN "unattempted" ELSE "none"
            ELSE IF v.reviewed[i] THEN "review"
                 ELSE IF v.ans[i] # Null THEN "ans" ELSE "none"
    IN CHOOSE painted \in
           {[v EXCEPT !.grid = [i \in DOMAIN v.grid |-> updateNum(v, i)]] : v \in {a}} :
           TRUE

\* loadOpts(q, qIdx) with q = this.qs[qIdx]: the classes of each option
\* (v is the object a, evaluated once)
loadOpts(a, qIdx) ==
    LET correctAnswer == qs[qIdx].correct_option_id
        cls(v, i) ==
            (IF v.sub THEN {"submitted"} ELSE {})
            \cup (IF v.ans[qIdx] = i THEN {"sel"} ELSE {})
            \cup (IF v.sub /\ correctAnswer # Undefined /\ correctAnswer # Null
                  THEN IF i = correctAnswer THEN {"correct"}
                       ELSE IF v.ans[qIdx] = i /\ v.ans[qIdx] # correctAnswer
                            THEN {"wrong"} ELSE {}
                  ELSE {})
    IN CHOOSE rendered \in
           {[v EXCEPT !.opts = [i \in 0..(qs[qIdx].nopts - 1) |-> cls(v, i)]] : v \in {a}} :
           TRUE

\* what loadQ(idx) paints once curQ is idx: the grid, and the options of
\* qs[idx]; for an idx that is no index of qs it throws in between
loadQView(a, idx) ==
    IF idx \in QIdx THEN loadOpts(updateGrid(a), idx) ELSE updateGrid(a)

\* loadQ that flushes but keeps the old lastQTime
loadQ_NoReset(a, idx, t) ==
    LET flushed == IF a.curQ # idx
                   THEN [a EXCEPT !.timeSpent[a.curQ] = @ + (t - a.lastQTime)]
                   ELSE a
    IN loadQView([flushed EXCEPT !.curQ = idx], idx)

\* loadQ flushing even when idx is the current question
loadQ_AlwaysFlush(a, idx, t) ==
    loadQView([a EXCEPT !.timeSpent[a.curQ] = @ + (t - a.lastQTime),
                        !.lastQTime = t,
                        !.curQ = idx], idx)

\* loadQ crediting the delta to the question it goes to
loadQ_CreditTarget(a, idx, t) ==
    LET flushed == IF a.curQ # idx
                   THEN [a EXCEPT !.timeSpent[idx] = @ + (t - a.lastQTime),
                                  !.lastQTime = t]
                   ELSE a
    IN loadQView([flushed EXCEPT !.curQ = idx], idx)

\* loadQ(idx) at time t: the flush and the assignment of curQ, which come before
\* the question is read (see loadQThrows for an idx that is no index of qs)
loadQ(a, idx, t) ==
    LET flushed == IF a.curQ # idx
                   THEN [a EXCEPT !.timeSpent[a.curQ] = @ + (t - a.lastQTime),
                                  !.lastQTime = t]
                   ELSE a
    IN loadQView([flushed EXCEPT !.curQ = idx], idx)

\* the forEach with a question that has no correct_option_id left unattempted
RECURSIVE Tally_AbsentSkipped(_, _, _, _, _)
Tally_AbsentSkipped(answers, questions, cfg, i, acc) ==
    IF i \notin DOMAIN questions THEN acc
    ELSE LET userAns == answers[i]
             correctAns == questions[i].correct_option_id
         IN Tally_AbsentSkipped(answers, questions, cfg, i + 1,
                IF userAns = Null \/ correctAns = Undefined
                THEN [acc EXCEPT !.unattempted = @ + 1]
                ELSE IF userAns = correctAns
                THEN [acc EXCEPT !.correct = @ + 1, !.score = @ + cfg.marksPerQuestion]
                ELSE [acc EXCEPT !.incorrect = @ + 1, !.score = @ - cfg.negativeMarking])

\* the forEach with an id beyond the options taken as the last option
RECURSIVE Tally_ClampedId(_, _, _, _, _)
Tally_ClampedId(answers, questions, cfg, i, acc) ==
    IF i \notin DOMAIN questions THEN acc
    ELSE LET userAns == answers[i]
             id == questions[i].correct_option_id
             correctAns == IF id >= questions[i].nopts THEN questions[i].nopts - 1 ELSE id
         IN Tally_ClampedId(answers, questions, cfg, i + 1,
                IF userAns = Null \/ userAns = Undefined
                THEN [acc EXCEPT !.unattempted = @ + 1]
                ELSE IF correctAns # Undefined /\ correctAns # Null /\ userAns = correctAns
                THEN [acc EXCEPT !.correct = @ + 1, !.score = @ + cfg.marksPerQuestion]
                ELSE [acc EXCEPT !.incorrect = @ + 1, !.score = @ - cfg.negativeMarking])

\* the forEach counting an answer as incorrect only against a present id
RECURSIVE Tally_WrongNeedsId(_, _, _, _, _)
Tally_WrongNeedsId(answers, questions, cfg, i, acc) ==
    IF i \notin DOMAIN questions THEN acc
    ELSE LET userAns == answers[i]
             correctAns == questions[i].correct_option_id
         IN Tally_WrongNeedsId(answers, questions, cfg, i + 1,
                IF userAns = Null \/ userAns = Undefined
                THEN [acc EXCEPT !.unattempted = @ + 1]
                ELSE IF correctAns = Undefined
                THEN acc
                ELSE IF correctAns # Null /\ userAns = correctAns
                THEN [acc EXCEPT !.correct = @ + 1, !.score = @ + cfg.marksPerQuestion]
                ELSE [acc EXCEPT !.incorrect = @ + 1, !.score = @ - cfg.negativeMarking])

\* the forEach of calcResults from question i on: <<correct, incorrect, unattempted, score>>
RECURSIVE Tally(_, _, _, _, _)
Tally(answers, questions, cfg, i, acc) ==
    IF i \notin DOMAIN questions THEN acc
    ELSE LET userAns == answers[i]
             correctAns == questions[i].correct_option_id
         IN Tally(answers, questions, cfg, i + 1,
                IF userAns = Null \/ userAns = Undefined
                THEN [acc EXCEPT !.unattempted = @ + 1]
                ELSE IF correctAns # Undefined /\ correctAns # Null /\ userAns = correctAns
                THEN [acc EXCEPT !.correct = @ + 1, !.score = @ + cfg.marksPerQuestion]
                ELSE [acc EXCEPT !.incorrect = @ + 1, !.score = @ - cfg.negativeMarking])

\* calcResults whose loop starts at the current question
calcResults_FromCurrent(a, t) ==
    LET tally == Tally(a.ans, qs, config, a.curQ,
                       [correct |-> 0, incorrect |-> 0, unattempted |-> 0, score |-> 0])
    IN [score |-> Max(0, tally.score), correct |-> tally.correct,
        incorrect |-> tally.incorrect, unattempted |-> tally.unattempted,
        timeTaken |-> RoundDiv(t - startT, 60000)]

\* calcResults without Math.max(0, score)
calcResults_NoClamp(a, t) ==
    LET tally == Tally(a.ans, qs, config, 0,
                       [correct |-> 0, incorrect |-> 0, unattempted |-> 0, score |-> 0])
    IN [score |-> tally.score, correct |-> tally.correct,
        incorrect |-> tally.incorrect, unattempted |-> tally.unattempted,
        timeTaken |-> RoundDiv(t - startT, 60000)]

\* calcResults() at time t
calcResults(a, t) ==
    LET timeTaken == RoundDiv(t - startT, 60000)
        tally == Tally(a.ans, qs, config, 0,
                       [correct |-> 0, incorrect |-> 0, unattempted |-> 0, score |-> 0])
    IN [score |-> Max(0, tally.score), correct |-> tally.correct,
        incorrect |-> tally.incorrect, unattempted |-> tally.unattempted,
        timeTaken |-> timeTaken]

\* showResults(results): the result fields
showResults(a, r) == [a EXCEPT !.results = r]

\* stopTimers that clears nothing
stopTimers_Noop(a) == a

\* stopTimers(): sectionTimer is never set
stopTimers(a) == [a EXCEPT !.timerOn = FALSE]

\* subTest without its guard
subTest_Unguarded(a, t) ==
    LET flushed == [a EXCEPT !.timeSpent[a.curQ] = @ + (t - a.lastQTime)]
        stopped == stopTimers([flushed EXCEPT !.sub = TRUE])
        counted == [stopped EXCEPT !.resCalls = @ + 1]
        shown == showResults(counted, calcResults(counted, t))
    IN updateGrid(loadQ(shown, shown.curQ, t))

\* subTest that flips the flag (this.sub = !this.sub) instead of guarding it
subTest_Toggle(a, t) ==
    LET flushed == [a EXCEPT !.timeSpent[a.curQ] = @ + (t - a.lastQTime)]
        stopped == stopTimers([flushed EXCEPT !.sub = ~@])
        counted == [stopped EXCEPT !.resCalls = @ + 1]
        shown == showResults(counted, calcResults(counted, t))
    IN updateGrid(loadQ(shown, shown.curQ, t))

\* subTest() at time t
subTest(a, t) ==
    IF a.sub THEN a
    ELSE LET flushed == [a EXCEPT !.timeSpent[a.curQ] = @ + (t - a.lastQTime)]
             stopped == stopTimers([flushed EXCEPT !.sub = TRUE])
             counted == [stopped EXCEPT !.resCalls = @ + 1]
             shown == showResults(counted, calcResults(counted, t))
         IN updateGrid(loadQ(shown, shown.curQ, t))

\* selOpt without its guard
selOpt_Unguarded(a, optIdx, qIdx) ==
    updateGrid(loadOpts([a EXCEPT !.ans[qIdx] = IF @ = optIdx THEN Null ELSE optIdx],
                        qIdx))

\* selOpt storing the option's 1-based position
selOpt_OffByOne(a, optIdx, qIdx) ==
    IF a.sub THEN a
    ELSE updateGrid(loadOpts(
             [a EXCEPT !.ans[qIdx] = IF @ = optIdx + 1 THEN Null ELSE optIdx + 1], qIdx))

\* selOpt that always selects (no toggle)
selOpt_Set(a, optIdx, qIdx) ==
    IF a.sub THEN a
    ELSE updateGrid(loadOpts([a EXCEPT !.ans[qIdx] = optIdx], qIdx))

\* selOpt(optIdx, qIdx): the toggle, then loadOpts and updateGrid
selOpt(a, optIdx, qIdx) ==
    IF a.sub THEN a
    ELSE updateGrid(loadOpts([a EXCEPT !.ans[qIdx] = IF @ = optIdx THEN Null ELSE optIdx],
                             qIdx))

\* toggleReview(): the flag, then updateGrid
toggleReview(a) ==
    IF a.sub THEN a
    ELSE updateGrid([a EXCEPT !.reviewed[a.curQ] = ~@])

\* nav that wraps around at the ends
nav_Wrap(a, dir, t) ==
    LET newIdx == (a.curQ + dir + NumQ) % NumQ IN
    loadQ(a, newIdx, t)

\* nav that flushes and re-loads the current question when newIdx is out of range
nav_FlushAtEdge(a, dir, t) ==
    LET newIdx == a.curQ + dir IN
    IF newIdx >= 0 /\ newIdx < NumQ THEN loadQ(a, newIdx, t)
    ELSE [a EXCEPT !.timeSpent[a.curQ] = @ + (t - a.lastQTime), !.lastQTime = t]

\* nav(dir) at time t
nav(a, dir, t) ==
    LET newIdx == a.curQ + dir IN
    IF newIdx >= 0 /\ newIdx < NumQ THEN loadQ(a, newIdx, t) ELSE a

\* goToQ(idx) at time t (closePanel only touches the panel's class)
goToQ(a, idx, t) == loadQ(a, idx, t)

\* setLang(e) at time t
setLang(a, e, t) == loadQ([a EXCEPT !.eng = e], a.curQ, t)

\* toggleTheme() at time t: the theme, then loadQ(this.curQ)
toggleTheme(a, t) == loadQ(a, a.curQ, t)

\* review() at time t: closeModal(), then loadQ(0)
review(a, t) == loadQ(a, 0, t)

\* the interval callback that ends the session at zero without calling subTest
timerTick_NoResult(a, t) ==
    LET dec == [a EXCEPT !.timeLeft = @ - 1] IN
    IF dec.timeLeft <= 0
    THEN [dec EXCEPT !.timerOn = FALSE, !.sub = TRUE]
    ELSE dec

\* the interval callback submitting only below zero (timeLeft < 0)
timerTick_Late(a, t) ==
    LET dec == [a EXCEPT !.timeLeft = @ - 1] IN
    IF dec.timeLeft < 0
    THEN subTest([dec EXCEPT !.timerOn = FALSE], t)
    ELSE dec

\* the interval callback of startTimer at time t
timerTick(a, t) ==
    LET dec == [a EXCEPT !.timeLeft = @ - 1] IN
    IF dec.timeLeft <= 0
    THEN subTest([dec EXCEPT !.timerOn = FALSE], t)
    ELSE dec

\* startTimer that creates no interval
startTimer_NoInterval(a) == a

\* startTimer()
startTimer(a) == [a EXCEPT !.timerOn = TRUE]

\* init() at time t: createGrid, startTimer, loadQ(0), setupEvents
init(a, t) == loadQ(startTimer(createGrid(a)), 0, t)

\* confirmSub running the body of subTest itself, without the guard
confirmSub_Unguarded(a, ok, t) == IF ok THEN subTest_Unguarded(a, t) ELSE a

\* confirmSub() at time t: ok is the user's answer to confirm(msg)
confirmSub(a, ok, t) == IF ok THEN subTest(a, t) ELSE a

\* ---------------------------------------------------------------- payloads
\* A supplied config: 1 minute, 2 marks a question, 0.5 negative marking.
SuppliedConfig(n) ==
    [durationMinutes |-> 1, totalMarks |-> 2 * n,
     marksPerQuestion |-> Marks(2, 0), negativeMarking |-> Marks(0, 2)]

\* The questions of a session payload: two options with the second one correct,
\* one option and no correct_option_id, two options and an id out of range.
PoolQ(i) ==
    CASE i % 3 = 0 -> Question(2, 1)
      [] i % 3 = 1 -> Question(1, Undefined)
      [] OTHER     -> Question(2, 2)

Fetched(n, withConfig) ==
    [fetched |-> TRUE, ok |-> TRUE, hasQuestions |-> TRUE, hasConfig |-> withConfig,
     config |-> IF withConfig THEN SuppliedConfig(n) ELSE NoConfig,
     questions |-> [i \in 0..(n - 1) |-> PoolQ(i)]]

\* fetch rejects; the response is not ok (its body may still hold questions);
\* the JSON has no questions array
FailedPayloads ==
    {[fetched |-> f, ok |-> o, hasQuestions |-> FALSE, hasConfig |-> FALSE,
      config |-> NoConfig, questions |-> <<>>] :
        f \in BOOLEAN, o \in BOOLEAN}
    \cup {[Fetched(1, FALSE) EXCEPT !.ok = FALSE]}

\* one question whose correct_option_id is no index of its two options
InvalidIdPayloads ==
    {[Fetched(1, TRUE) EXCEPT !.questions = [i \in 0..0 |-> Question(2, c)]] :
        c \in {2, 0 - 3}}

SessionPayloads ==
    {Fetched(n, TRUE) : n \in 1..MaxQ} \cup {Fetched(1, FALSE)}
        \cup InvalidIdPayloads \cup FailedPayloads

\* validateData(): the questions it warns about. A null or absent id compares
\* false both ways (null converts to 0, undefined to NaN) and draws no warning.
validateData(questions) ==
    {idx \in DOMAIN questions :
        LET id == questions[idx].correct_option_id IN
        /\ id \notin {Null, Undefined}
        /\ (id < 0 \/ id >= questions[idx].nopts)}

\* -------------------------------------------------------------------- Init
Unbuilt ==
    /\ config = NoConfig
    /\ qs = <<>>
    /\ curQ = 0
    /\ ans = <<>>
    /\ reviewed = <<>>
    /\ startT = 0
    /\ timeLeft = 0
    /\ timeSpent = <<>>
    /\ lastQTime = 0
    /\ sub = FALSE
    /\ eng = TRUE
    /\ timerOn = FALSE
    /\ results = NoResults
    /\ resCalls = 0
    /\ grid = <<>>
    /\ opts = <<>>

\* The page has loaded and loadTestData(JSON_DATA_URL) is about to run.
Init ==
    /\ phase = "fetching"
    /\ payload \in SessionPayloads
    /\ now = 0
    /\ fetches = 0
    /\ Unbuilt

\* ----------------------------------------------------------------- actions
\* new TestApp(data) at time now
Construct(data) ==
    /\ config' = IF data.hasConfig THEN data.config ELSE getDefaultConfig(data.questions)
    /\ qs' = data.questions
    /\ curQ' = 0
    /\ ans' = [i \in DOMAIN data.questions |-> Null]
    /\ reviewed' = [i \in DOMAIN data.questions |-> FALSE]
    /\ startT' = now
    /\ timeLeft' = config'.durationMinutes * 60
    /\ timeSpent' = [i \in DOMAIN data.questions |-> 0]
    /\ lastQTime' = now
    /\ sub' = FALSE
    /\ eng' = TRUE
    /\ timerOn' = FALSE
    /\ UNCHANGED <<results, resCalls, grid, opts>>

\* the then/catch chain without the test of response.ok
loadTestData_NoOkCheck ==
    /\ phase = "fetching"
    /\ fetches' = fetches + 1
    /\ IF payload.fetched /\ payload.hasQuestions
       THEN /\ Construct(payload)
            /\ phase' = "welcome"
       ELSE /\ phase' = "error"
            /\ UNCHANGED <<config, qs, curQ, ans, reviewed, startT, timeLeft, timeSpent,
                           lastQTime, sub, eng, timerOn, results, resCalls,
                           grid, opts>>
    /\ UNCHANGED <<payload, now>>

\* loadTestData(JSON_URL): the fetch and its then/catch chain
loadTestData ==
    /\ phase = "fetching"
    /\ fetches' = fetches + 1
    /\ IF payload.fetched /\ payload.ok /\ payload.hasQuestions
       THEN /\ Construct(payload)
            /\ phase' = "welcome"
       ELSE /\ phase' = "error"
            /\ UNCHANGED <<config, qs, curQ, ans, reviewed, startT, timeLeft, timeSpent,
                           lastQTime, sub, eng, timerOn, results, resCalls,
                           grid, opts>>
    /\ UNCHANGED <<payload, now>>

\* Date.now() grows
ClockAdvances ==
    /\ phase \in {"welcome", "starting", "running"}
    /\ now < MaxClockSteps * ClockStep
    /\ now' = now + ClockStep
    /\ UNCHANGED <<phase, payload, config, qs, curQ, ans, reviewed, startT, timeLeft,
                   timeSpent, lastQTime, sub, eng, timerOn, results, resCalls,
                   grid, opts, fetches>>

\* what no handler of a built session writes
Fixed == UNCHANGED <<payload, now, config, qs, startT, fetches>>

\* the click on startTestBtn
OnStart ==
    /\ phase = "welcome"
    /\ phase' = "starting"
    /\ Becomes(App)
    /\ Fixed

\* the timeout set by the start button: init()
StartTimeout ==
    /\ phase = "starting"
    /\ phase' = "running"
    /\ Becomes(init(App, now))
    /\ Fixed

Running == phase = "running" /\ phase' = phase /\ Fixed

\* the interval of startTimer fires
TimerFires == Running /\ timerOn /\ Becomes(timerTick(App, now))

OnPrev == Running /\ Becomes(nav(App, 0 - 1, now))

OnNext == Running /\ Becomes(nav(App, 1, now))

\* a click on cell i of the grid built by createGrid
OnGridCell == Running /\ \E i \in QIdx : Becomes(goToQ(App, i, now))

\* a click on option i of the option list rendered by loadOpts for question q
OnOption ==
    Running /\ \E q \in QIdx : \E i \in 0..(qs[q].nopts - 1) : Becomes(selOpt(App, i, q))

OnReviewBtn == Running /\ Becomes(toggleReview(App))

OnLangBtn == Running /\ \E e \in BOOLEAN : Becomes(setLang(App, e, now))

OnThemeToggle == Running /\ Becomes(toggleTheme(App, now))

OnSubBtn == Running /\ \E ok \in BOOLEAN : Becomes(confirmSub(App, ok, now))

OnRevBtn == Running /\ Becomes(review(App, now))

Next ==
    \/ loadTestData
    \/ ClockAdvances
    \/ OnStart
    \/ StartTimeout
    \/ TimerFires
    \/ OnPrev
    \/ OnNext
    \/ OnGridCell
    \/ OnOption
    \/ OnReviewBtn
    \/ OnLangBtn
    \/ OnThemeToggle
    \/ OnSubBtn
    \/ OnRevBtn

Spec == Init /\ [][Next]_vars

\* The interval set by startTimer keeps firing while it is not cleared: the
\* event loop runs its callback about once a second, whatever else is queued.
SpecLive == Init /\ [][Next]_vars /\ WF_vars(TimerFires)

\* ------------------------------------------------ calls with any argument
\* loadQ(idx) reads q = this.qs[idx] after it has assigned curQ; for an idx that is
\* no index of qs q is undefined and q.comp throws a TypeError, which no caller
\* catches: the handler ends there.
loadQThrows(idx) == idx \notin QIdx

AnyIndex == (0 - 1)..MaxQ

\* goToQ(idx) called with an integer, at time now; after an uncaught TypeError
\* the session is not followed any further (phase "thrown")
GoToQCall(idx) ==
    /\ phase = "running"
    /\ Becomes(goToQ(App, idx, now))
    /\ phase' = IF loadQThrows(idx) THEN "thrown" ELSE phase
    /\ Fixed

CallGoToQ == \E idx \in AnyIndex : GoToQCall(idx)

NextApi == Next \/ CallGoToQ

SpecApi == Init /\ [][NextApi]_vars

\* ------------------------------------------------------- the loader alone
\* loadTestData on payloads of every length up to MaxLoadQ, with and without a
\* config, and on the failing ones.
LoadPayloads ==
    {Fetched(n, c) : n \in 0..MaxLoadQ, c \in BOOLEAN} \cup FailedPayloads

InitLoad ==
    /\ phase = "fetching"
    /\ payload \in LoadPayloads
    /\ now = 0
    /\ fetches = 0
    /\ Unbuilt

NextLoad == loadTestData

SpecLoad == InitLoad /\ [][NextLoad]_vars

\* ------------------------------------------------------- scoring inputs
\* calcResults applied to the answers and questions of a finished attempt.
\* Up to MaxQ questions every kind of correct_option_id is drawn (valid, out of
\* range, null, absent); longer papers alternate the correct option.
ScoreKinds == {Question(2, c) : c \in {0, 1, 2, Null, Undefined}}

ScoreBanks(n) ==
    IF n <= MaxQ THEN [0..(n - 1) -> ScoreKinds]
    ELSE {[i \in 0..(n - 1) |-> Question(2, i % 2)]}

ScoreConfigs ==
    {[durationMinutes |-> 1, totalMarks |-> 34,
      marksPerQuestion |-> Marks(1, 0), negativeMarking |-> Marks(0, 1)],
     [durationMinutes |-> 1, totalMarks |-> 34,
      marksPerQuestion |-> Marks(2, 0), negativeMarking |-> Marks(0, 2)],
     [durationMinutes |-> 1, totalMarks |-> 34,
      marksPerQuestion |-> Marks(0, 0), negativeMarking |-> Marks(1, 0)]}

InitScore ==
    /\ phase = "scoring"
    /\ payload = Fetched(1, TRUE)
    /\ now = 0
    /\ fetches = 1
    /\ config \in ScoreConfigs
    /\ \E n \in 1..MaxScoreQ :
          /\ qs \in ScoreBanks(n)
          /\ ans \in [0..(n - 1) -> {Null, 0, 1}]
          /\ reviewed = [i \in 0..(n - 1) |-> FALSE]
          /\ timeSpent = [i \in 0..(n - 1) |-> 0]
    /\ curQ = 0
    /\ startT = 0
    /\ timeLeft = 0
    /\ lastQTime = 0
    /\ sub = TRUE
    /\ eng = TRUE
    /\ timerOn = FALSE
    /\ results = NoResults
    /\ resCalls = 0
    /\ grid = <<>>
    /\ opts = <<>>

\* const results = this.calcResults(); this.showResults(results)
Score ==
    /\ phase = "scoring"
    /\ phase' = "scored"
    /\ Becomes(showResults([App EXCEPT !.resCalls = @ + 1], calcResults(App, now)))
    /\ Fixed

NextScore == Score

SpecScore == InitScore /\ [][NextScore]_vars

\* ------------------------------------------------------------ properties
Built == phase \in {"welcome", "starting", "running"}

RECURSIVE SumFrom(_, _)
SumFrom(f, i) == IF i \notin DOMAIN f THEN 0 ELSE f[i] + SumFrom(f, i + 1)

\* the sum of all timeSpent entries (ms)
TotalTimeSpent == SumFrom(timeSpent, 0)

Answered == {i \in QIdx : ans[i] # Null}

\* C1: once the session is submitted, ans and reviewed never change again,
\* whatever handler runs afterwards (selOpt, toggleReview, navigation, language,
\* theme, ticks).
C1_FrozenAfterSubmit == [][sub => (ans' = ans /\ reviewed' = reviewed)]_vars

\* C1 witness: a submitted session with an answered, an unanswered and a flagged
\* question, in which a navigation has run after the submission (only then does
\* the credited time exceed the elapsed time).
C1_Witness ==
    /\ phase = "running" /\ sub
    /\ Answered # {} /\ Answered # QIdx
    /\ \E i \in QIdx : reviewed[i]
    /\ TotalTimeSpent > now - startT

\* C2 (as claimed): once the session is submitted no handler changes any entry
\* of timeSpent.
C2_TimingStopsAfterSubmit == [][sub => timeSpent' = timeSpent]_vars

\* C3: every step taken from a state that is not yet submitted (the construction,
\* a navigation, the final flush of subTest, a clock advance) ends in a state
\* whose credited time is at most the time elapsed since startT.
C3_NoDoubleCounting ==
    [][(~sub /\ Built') => (TotalTimeSpent' <= now' - startT')]_vars

\* C3 witness: just submitted, time was credited to every one of two or more
\* questions, and the credit adds up to exactly the elapsed time.
C3_Witness ==
    /\ phase = "running" /\ sub
    /\ NumQ >= 2
    /\ \A i \in QIdx : timeSpent[i] > 0
    /\ TotalTimeSpent = now - startT

\* C4: sub goes from false to true and never back.
C4_SubmittedIsIrreversible == [][sub => sub']_vars

\* C4 witness: a submitted session in which handlers went on running: the clock
\* has moved on since the result was computed and a navigation flushed again.
C4_Witness ==
    /\ phase = "running" /\ sub
    /\ results.timeTaken # RoundDiv(now - startT, 60000)
    /\ lastQTime = now

\* C5: a submit on a submitted session changes no field of the session and
\* neither recomputes nor replaces the displayed Result.
C5_DoubleSubmitIsNoOp ==
    [][(sub /\ OnSubBtn) =>
         UNCHANGED <<ans, reviewed, timeSpent, curQ, timeLeft, sub, lastQTime,
                     timerOn, results, resCalls>>]_vars

\* C5 witness: submitted once, and a second computation would now give another
\* Result (the rounded minutes have changed) and another flush.
C5_Witness ==
    /\ phase = "running" /\ sub /\ resCalls = 1
    /\ results.timeTaken # RoundDiv(now - startT, 60000)
    /\ now > lastQTime

\* The classes of calcResults, stated question by question.
IsUnattempted(i) == ans[i] = Null
IsCorrect(i) ==
    /\ ans[i] # Null
    /\ qs[i].correct_option_id \notin {Null, Undefined}
    /\ ans[i] = qs[i].correct_option_id
IsIncorrect(i) == ans[i] # Null /\ ~IsCorrect(i)

NumCorrect == Cardinality({i \in QIdx : IsCorrect(i)})
NumIncorrect == Cardinality({i \in QIdx : IsIncorrect(i)})
NumUnattempted == Cardinality({i \in QIdx : IsUnattempted(i)})

\* the score before clamping, in quarter marks
RawScore == (NumCorrect * config.marksPerQuestion) - (NumIncorrect * config.negativeMarking)

Scored == phase = "scored"

\* 10 questions, marksPerQuestion 2, negativeMarking 0.5, 6 correct, 3 incorrect, 1 null
TenQuestionScenario ==
    /\ NumQ = 10
    /\ config.marksPerQuestion = Marks(2, 0) /\ config.negativeMarking = Marks(0, 2)
    /\ NumCorrect = 6 /\ NumIncorrect = 3 /\ NumUnattempted = 1

\* 4 questions, marksPerQuestion 1, negativeMarking 0.25, all four answered wrongly
FourWrongScenario ==
    /\ NumQ = 4
    /\ config.marksPerQuestion = Marks(1, 0) /\ config.negativeMarking = Marks(0, 1)
    /\ NumIncorrect = 4

\* C6: calcResults counts a question with a null answer as unattempted, one whose
\* answer equals a defined correct_option_id as correct (adding marksPerQuestion)
\* and every other one as incorrect (subtracting negativeMarking); in the
\* ten-question scenario the Result is score 10.5, correct 6, incorrect 3,
\* unattempted 1.
C6_Classification ==
    Scored =>
      /\ results.correct = NumCorrect
      /\ results.incorrect = NumIncorrect
      /\ results.unattempted = NumUnattempted
      /\ (RawScore >= 0 => results.score = RawScore)
      /\ (TenQuestionScenario =>
            /\ results.score = Marks(10, 2)
            /\ results.correct = 6 /\ results.incorrect = 3 /\ results.unattempted = 1)

\* C6 witness: the ten-question scenario has been scored.
C6_Witness == Scored /\ TenQuestionScenario

\* C7: the score of a Result is never negative: it is max(0, raw score); four
\* wrong answers out of four at 1 / 0.25 give a raw score of -1.0 and a score of 0.
C7_ScoreFloor ==
    Scored =>
      /\ results.score >= 0
      /\ results.score = Max(0, RawScore)
      /\ (FourWrongScenario => (RawScore = 0 - Marks(1, 0) /\ results.score = 0))

\* C7 witness: the four-wrong scenario has been scored.
C7_Witness == Scored /\ FourWrongScenario

\* C8: timeLeft stays within 0..durationMinutes*60 and is 0 only in a submitted
\* session; it never increases; it changes only when the timer fires, by exactly
\* one, and the tick that brings it to 0 submits and stops the clock in the same
\* step.
C8_Countdown ==
    /\ [](Built => /\ 0 <= timeLeft
                   /\ timeLeft <= config.durationMinutes * 60
                   /\ (timeLeft = 0 => sub))
    /\ [][Built => timeLeft' <= timeLeft]_vars
    /\ [][(Built /\ TimerFires) => timeLeft' = timeLeft - 1]_vars
    /\ [][(Built /\ timeLeft' # timeLeft) =>
            /\ TimerFires
            /\ (timeLeft' = 0 => (sub' /\ ~timerOn'))]_vars

\* C8 witness: the countdown ran out with a question still unanswered and the
\* session is submitted.
C8_Witness ==
    /\ phase = "running" /\ timeLeft = 0 /\ sub /\ ~timerOn
    /\ Answered # QIdx

\* C9: no tick fires on a submitted session: timeLeft no longer changes and the
\* interval is cancelled, whether the submission was forced or the user's.
C9_NoTickAfterSubmit ==
    /\ [](sub => ~timerOn)
    /\ [][sub => timeLeft' = timeLeft]_vars

\* C9 witness: the user submitted while the countdown was running (some ticks
\* had fired, time was left) and the interval is cancelled.
C9_Witness ==
    /\ phase = "running" /\ sub /\ ~timerOn
    /\ 0 < timeLeft /\ timeLeft < config.durationMinutes * 60

\* ans[qIdx] after two consecutive calls selOpt(optIdx, qIdx)
AfterTwoSelOpt(optIdx, qIdx) == selOpt(selOpt(App, optIdx, qIdx), optIdx, qIdx).ans[qIdx]

OptionsOf(q) == 0..(qs[q].nopts - 1)

\* C10 (as claimed): before submission two consecutive calls selOpt(k, i) leave
\* ans[i] = null whatever ans[i] was.
C10_TwiceGivesNull ==
    (phase = "running" /\ ~sub) =>
        \A q \in QIdx : \A k \in OptionsOf(q) : AfterTwoSelOpt(k, q) = Null

\* C10 (amended): before submission two consecutive calls selOpt(k, i) leave
\* ans[i] = null when ans[i] was null or another option, and leave ans[i] = k
\* when ans[i] was k.
C10_TwiceToggles ==
    (phase = "running" /\ ~sub) =>
        \A q \in QIdx : \A k \in OptionsOf(q) :
            AfterTwoSelOpt(k, q) = IF ans[q] = k THEN k ELSE Null

\* C10 witness: before submission a question with two options has its second
\* option selected (for k = 1 the start value is k, for k = 0 another option).
C10_Witness ==
    /\ phase = "running" /\ ~sub
    /\ \E q \in QIdx : qs[q].nopts >= 2 /\ ans[q] = 1


\* C11: in a session of N >= 1 questions curQ is an index of the question array
\* in every state the user-facing triggers reach, and the previous and next
\* buttons move by one or not at all: they never wrap around.
C11_CurrentIndexInRange ==
    /\ [](Built => (NumQ >= 1 /\ curQ \in 0..(NumQ - 1)))
    /\ [][OnNext => curQ' = (IF curQ = NumQ - 1 THEN curQ ELSE curQ + 1)]_vars
    /\ [][OnPrev => curQ' = (IF curQ = 0 THEN curQ ELSE curQ - 1)]_vars

\* C11 witness: the last of two or more questions is the current one, reached
\* by a navigation that credited time to the first.
C11_Witness ==
    /\ phase = "running"
    /\ NumQ >= 2 /\ curQ = NumQ - 1
    /\ timeSpent[0] > 0


\* C12 (as claimed): a goToQ with an index outside the question array raises no
\* error, leaves curQ, ans and reviewed unchanged and changes timeSpent at most
\* in the entry of the current question.
C12_OutOfRangeIgnored ==
    [][(\E idx \in AnyIndex \ QIdx : GoToQCall(idx)) =>
          /\ phase' # "thrown"
          /\ curQ' = curQ /\ ans' = ans /\ reviewed' = reviewed
          /\ \A i \in QIdx \ {curQ} : timeSpent'[i] = timeSpent[i]]_vars


\* C13: the tick that brings the countdown to 0 submits the session, and its
\* Result is the one a confirmed manual submit would produce in the same state:
\* the same record, with every unanswered question counted as unattempted and
\* the others as correct or incorrect.
C13_ForcedSubmitScoresAlike ==
    [][(TimerFires /\ timeLeft' = 0) =>
          /\ sub'
          /\ ans' = ans
          /\ results' = confirmSub(App, TRUE, now).results
          /\ results'.unattempted = NumUnattempted
          /\ results'.correct = NumCorrect
          /\ results'.incorrect = NumIncorrect
          /\ results'.score = Max(0, RawScore)]_vars

\* C13 witness: the countdown ran out with two questions unanswered and the
\* Result counts both as unattempted.
C13_Witness ==
    /\ phase = "running" /\ sub /\ timeLeft = 0
    /\ NumUnattempted = 2
    /\ results.unattempted = 2


\* the fields of a Result other than timeTaken
ScoreFields(r) == <<r.score, r.correct, r.incorrect, r.unattempted>>

\* the readings the clock can give from startT on
ClockTimes == {startT + (k * ClockStep) : k \in 0..MaxClockSteps}

C15_InvalidIdNeverCorrect ==
    /\ (phase = "error" => payload \in FailedPayloads)
    /\ ((phase = "running" /\ sub) =>
          /\ results.correct =
               Cardinality({i \in QIdx \ validateData(qs) : IsCorrect(i)})
          /\ results.incorrect =
               Cardinality({i \in validateData(qs) : ans[i] # Null})
                 + Cardinality({i \in QIdx \ validateData(qs) : IsIncorrect(i)})
          /\ results.unattempted = Cardinality({i \in QIdx : ans[i] = Null}))

\* C15 witness: a session built from a question with an invalid id was answered
\* and submitted, and the Result counts the answer as incorrect.
C15_Witness ==
    /\ phase = "running" /\ sub
    /\ \E i \in validateData(qs) : ans[i] = 1
    /\ results.incorrect = 1 /\ results.correct = 0


\* C16: setLang changes only eng. It leaves curQ, ans, reviewed, timeSpent,
\* lastQTime, timeLeft, sub and everything else of the session unchanged,
\* before and after submission: its loadQ(curQ) performs no time flush.
C16_SetLangChangesOnlyEng ==
    [][OnLangBtn =>
          UNCHANGED <<config, qs, curQ, ans, reviewed, startT, timeLeft, timeSpent,
                      lastQTime, sub, timerOn, results, resCalls>>]_vars

\* C16 witness: Hindi was chosen, and time has passed on the current question
\* that no flush has credited to any question.
C16_Witness ==
    /\ phase = "running" /\ ~eng
    /\ now > lastQTime /\ TotalTimeSpent = 0


\* C17: a payload without config gets the config derived from its number of
\* questions N: durationMinutes = totalMarks = N (34 when N is 0),
\* marksPerQuestion = 1, negativeMarking = 0.25; a supplied config is used
\* unchanged; either way the clock starts at durationMinutes * 60 seconds.
C17_DefaultConfig ==
    phase = "welcome" =>
      /\ payload.hasConfig => config = payload.config
      /\ ~payload.hasConfig =>
            /\ config.durationMinutes = (IF NumQ = 0 THEN 34 ELSE NumQ)
            /\ config.totalMarks = (IF NumQ = 0 THEN 34 ELSE NumQ)
            /\ config.marksPerQuestion = Marks(1, 0)
            /\ config.negativeMarking = Marks(0, 1)
      /\ timeLeft = config.durationMinutes * 60
      /\ (~payload.hasConfig /\ NumQ = 40) =>
            (config.durationMinutes = 40 /\ config.totalMarks = 40 /\ timeLeft = 2400)

\* C17 witness: the session built from 40 questions and no config.
C17_Witness ==
    /\ phase = "welcome" /\ ~payload.hasConfig /\ NumQ = 40
    /\ config.durationMinutes = 40 /\ config.totalMarks = 40
    /\ config.marksPerQuestion = Marks(1, 0) /\ config.negativeMarking = Marks(0, 1)


\* C18: when the fetch rejects, the response is not ok or the payload has no
\* questions array, no session is ever constructed, the loader ends in the
\* error view, which nothing leaves, and the fetch is attempted exactly once.
C18_LoadFailureIsTerminal ==
    /\ [](fetches <= 1)
    /\ [](payload \in FailedPayloads => (Unbuilt /\ phase \in {"fetching", "error"}))
    /\ []((payload \in FailedPayloads /\ fetches = 1) => phase = "error")
    /\ [](phase = "error" => (fetches = 1 /\ payload \in FailedPayloads))
    /\ [][phase = "error" => UNCHANGED vars]_vars

\* C18 witness: a response that was not ok, although its body held questions,
\* has ended in the error view after one fetch.
C18_Witness ==
    /\ phase = "error" /\ fetches = 1
    /\ payload.fetched /\ ~payload.ok /\ payload.hasQuestions


C20_SubmitResetsLastQTime ==
    [][(~sub /\ sub') =>
          /\ timeSpent' = [timeSpent EXCEPT ![curQ] = @ + (now - lastQTime)]
          /\ lastQTime' = now]_vars


\* C21: before submission a step that moves from question i to another question
\* j adds now - lastQTime to timeSpent[i] only and sets lastQTime to now, and
\* the step that submits adds now - lastQTime to the question then current:
\* the interval before a navigation goes to i, the interval between the
\* navigation and the submission goes to j.
C21_TimeGoesToActiveQuestion ==
    /\ [][(~sub /\ phase = "running" /\ curQ' # curQ) =>
             /\ timeSpent' = [timeSpent EXCEPT ![curQ] = @ + (now - lastQTime)]
             /\ lastQTime' = now
             /\ ~sub']_vars
    /\ [][(~sub /\ sub') =>
             /\ curQ' = curQ
             /\ timeSpent' = [timeSpent EXCEPT ![curQ] = @ + (now - lastQTime)]]_vars

\* C21 witness: the first question was left after one clock step and the session
\* was submitted on the second question two clock steps later; each question
\* holds its own interval.
C21_Witness ==
    /\ phase = "running" /\ sub /\ NumQ = 2 /\ curQ = 1
    /\ lastQTime = startT + ClockStep /\ now = startT + (2 * ClockStep)
    /\ timeSpent[0] = ClockStep /\ timeSpent[1] = ClockStep


\* C22: nav(-1) on the first question and nav(+1) on the last one change
\* nothing: curQ, ans, reviewed, timeSpent and lastQTime stay as they are, so no
\* time is flushed.
C22_NavAtBoundaryIsNoOp ==
    [][((OnPrev /\ curQ = 0) \/ (OnNext /\ curQ = NumQ - 1)) =>
          UNCHANGED <<curQ, ans, reviewed, timeSpent, lastQTime, timeLeft, sub, eng,
                      timerOn, results, resCalls>>]_vars

\* C22 witness: back on the first question after a visit to the second, with
\* time on the clock that is not yet flushed and would show if Prev flushed it.
C22_Witness ==
    /\ phase = "running" /\ ~sub /\ NumQ = 2 /\ curQ = 0
    /\ timeSpent[1] > 0 /\ now > lastQTime


\* C23 (as claimed): when the session enters the running state, timeLeft is
\* durationMinutes * 60 and startT and lastQTime are both the time of that entry,
\* so that the time spent on the welcome screen is counted nowhere.
C23_StartSetsTimestamps ==
    [][(phase # "running" /\ phase' = "running") =>
          /\ timeLeft' = config'.durationMinutes * 60
          /\ startT' = now'
          /\ lastQTime' = now']_vars


\* C24: every started session is eventually submitted, whatever the user does
\* and even if Submit is never pressed: while the timer runs timeLeft is between
\* 1 and durationMinutes * 60, every firing of the interval takes one off, and
\* the firing that reaches zero submits, so at most durationMinutes * 60
\* firings are needed.
C24_EventuallySubmitted ==
    /\ (phase = "running") ~> sub
    /\ [](phase = "running" => (timerOn <=> ~sub))
    /\ [](timerOn => timeLeft \in 1..(config.durationMinutes * 60))
    /\ [][TimerFires => (timeLeft' = timeLeft - 1 /\ (sub' <=> timeLeft' = 0))]_vars

\* C24 witness: the countdown ran out on a session whose Submit was never
\* confirmed before: one result, computed by the last firing of the interval.
C24_Witness ==
    /\ phase = "running" /\ sub /\ ~timerOn /\ timeLeft = 0 /\ resCalls = 1
    /\ Answered # {} /\ curQ # 0 /\ ~eng


\* C25: while the session is not submitted no grid cell carries wrong or
\* unattempted and no rendered option carries correct or wrong, whatever the
\* answers are; a cell other than the current one is review if the question is
\* flagged, else ans if it is answered, else unmarked.
C25_NothingRevealedBeforeSubmit ==
    (Built /\ ~sub) =>
      /\ \A i \in DOMAIN grid : grid[i] \notin {"wrong", "unattempted"}
      /\ \A o \in DOMAIN opts : opts[o] \cap {"correct", "wrong", "submitted"} = {}
      /\ phase = "running" =>
            /\ DOMAIN grid = QIdx
            /\ \A i \in QIdx \ {curQ} :
                  grid[i] = (IF reviewed[i] THEN "review"
                             ELSE IF ans[i] # Null THEN "ans" ELSE "none")

\* C25 witness: before submission the second question is answered and flagged
\* and its cell shows review; the first question is answered with the wrong
\* option, which is rendered as selected and nothing else.
C25_Witness ==
    /\ phase = "running" /\ ~sub /\ NumQ = 2 /\ curQ = 0
    /\ ans[1] # Null /\ reviewed[1] /\ grid[1] = "review"
    /\ ans[0] = 0 /\ qs[0].correct_option_id = 1
    /\ opts[0] = {"sel"} /\ opts[1] = {}


\* the class calcResults puts question i in: what its forEach adds at i
NoTally == [correct |-> 0, incorrect |-> 0, unattempted |-> 0, score |-> 0]

CountedAs(i) ==
    LET from == Tally(ans, qs, config, i, NoTally)
        after == Tally(ans, qs, config, i + 1, NoTally)
    IN {c \in {"correct", "incorrect", "unattempted"} : from[c] - after[c] = 1}

\* C26 (as claimed): after submission the cell of every question other than the
\* current one is ans exactly if calcResults counts the question correct, wrong
\* exactly if it counts it incorrect, and unattempted exactly if it counts it
\* unattempted.
C26_GridAgreesWithScoring ==
    (phase = "running" /\ sub) =>
      \A i \in QIdx \ {curQ} :
        /\ grid[i] = "ans" <=> CountedAs(i) = {"correct"}
        /\ grid[i] = "wrong" <=> CountedAs(i) = {"incorrect"}
        /\ grid[i] = "unattempted" <=> CountedAs(i) = {"unattempted"}


\* C27: in every Result correct + incorrect + unattempted is the number of
\* questions: calcResults puts each question in exactly one of the three
\* classes, whatever the answers are and whether correct_option_id is an option,
\* out of range, null or absent.
C27_ClassesPartitionQuestions ==
    Scored =>
      /\ results.correct + results.incorrect + results.unattempted = NumQ
      /\ \A i \in QIdx : Cardinality(CountedAs(i)) = 1
      /\ \A c \in {"correct", "incorrect", "unattempted"} :
            results[c] = Cardinality({i \in QIdx : CountedAs(i) = {c}})

\* C27 witness: a Result over two answered questions, one without
\* correct_option_id and one whose id is out of range: both incorrect.
C27_Witness ==
    /\ Scored /\ NumQ = 2
    /\ qs[0].correct_option_id = Undefined /\ ans[0] = 0
    /\ qs[1].correct_option_id = 2 /\ ans[1] = 1
    /\ results.correct = 0 /\ results.incorrect = 2 /\ results.unattempted = 0


\* C28: however the firings of the interval and the user's submits interleave,
\* also when a submit is confirmed on a session the countdown has just ended,
\* the result is computed and shown once: calcResults runs in the one step that
\* sets sub, and no later submit or firing flushes time or replaces the Result.
C28_ResultComputedOnce ==
    /\ [](resCalls <= 1)
    /\ [](phase = "running" => (sub <=> resCalls = 1))
    /\ [][(resCalls' # resCalls) =>
             /\ ~sub /\ sub' /\ resCalls' = resCalls + 1
             /\ results' = calcResults(App, now)
             /\ timeSpent' = [timeSpent EXCEPT ![curQ] = @ + (now - lastQTime)]]_vars
    /\ [][(sub /\ (OnSubBtn \/ TimerFires)) =>
             UNCHANGED <<timeSpent, lastQTime, results, resCalls, sub>>]_vars

\* C28 witness: the countdown ended the session and the clock has moved on, so
\* that a submit confirmed now would flush more time and show other minutes if
\* it were to run.
C28_Witness ==
    /\ phase = "running" /\ sub /\ timeLeft = 0 /\ resCalls = 1
    /\ now > lastQTime
    /\ results.timeTaken # RoundDiv(now - startT, 60000)

====
